---- MODULE Spec2Model ----
(***************************************************************************)
(* A model of rpa_sap: the SapGui facade (src/rpa_sap/SapGui.py) and the   *)
(* GridView helper (src/rpa_sap/lib/GridView.py) over the host             *)
(* application's scripting object model.                                   *)
(*                                                                         *)
(* The host (connections, their sessions, a grid control) is the           *)
(* environment; the wrapper's own state is the handles it keeps.  Every    *)
(* public operation is one action, but open_new_session, which sleeps      *)
(* between the launch and the binding of the handles while the host goes   *)
(* on: it is two actions with the host's steps between them.  What the     *)
(* caller sees of a call (returned value or exception) is recorded in the  *)
(* variable last.                                                          *)
(***************************************************************************)
EXTENDS Integers, Sequences, FiniteSets, TLC

VARIABLES
    running,            \* the host application is running ('SAPGUI' can be bound)
    connections,        \* host: sequence of [no, info, sessions], sessions a sequence of [no]
    application,        \* SapGui.__sap_gui / __application: "None", "live" or "stale"
    active_connection,  \* SapGui.active_connection: [st, no]
    active_session,     \* SapGui.active_session: [st, con, no]
    active_window,      \* SapGui.active_window: [st, con, ses, wnd]
    last,               \* the last call: operation, arguments, environment answers, outcome
    grid,               \* host: the grid control [RowCount, ColumnOrder, cells]
    opening             \* the open_new_session call that sleeps: <<>> or <<its connection>>

vars == <<running, connections, application, active_connection, active_session,
          active_window, last, grid, opening>>

----------------------------------------------------------------------------
(* Bounds of the model *)

\* sessions open in the host at any one time, over all connections
MaxSessions == 2
\* connections of the wide host (one session each)
WideConn == 11
\* rows and columns of a grid
MaxRows == 2
MaxCols == 2

----------------------------------------------------------------------------
(* Optional arguments: <<>> is None, <<x>> is the value x *)

Opt(S) == {<<>>} \cup {<<x>> : x \in S}
IsNone(a) == a = <<>>
Val(a) == a[1]

\* the index arguments of the calls: None, 0 or 1
IdxArgs == Opt({0, 1})

----------------------------------------------------------------------------
(* The host application's object model *)

\* login details of a connection: system name, client, user, application server
InfoPrt == [sid |-> "PRT", client |-> "900", user |-> "USER", server |-> "srvprt"]
InfoDev == [sid |-> "DEV", client |-> "900", user |-> "USER", server |-> "SrvDev"]
Infos == {InfoPrt, InfoDev}

\* a collection's Count and its item at a 0-based position
Count(coll) == Len(coll)
HasItem(coll, i) == i >= 0 /\ i < Len(coll)
Item(coll, i) == coll[i + 1]

\* the lowest number not in use: the number the host gives a new child
FreeNo(used) ==
    CHOOSE n \in 0 .. Cardinality(used) :
        n \notin used /\ \A m \in 0 .. (n - 1) : m \in used

ConnNos(conns) == {conns[i].no : i \in DOMAIN conns}
SessNos(conn) == {conn.sessions[i].no : i \in DOMAIN conn.sessions}
TotalSessions(conns) ==
    LET RECURSIVE Sum(_)
        Sum(i) == IF i = 0 THEN 0 ELSE Len(conns[i].sessions) + Sum(i - 1)
    IN Sum(Len(conns))

\* the position (1-based) of the connection numbered no; 0 when there is none
ConnPos(conns, no) ==
    IF no \in ConnNos(conns)
    THEN CHOOSE i \in DOMAIN conns : conns[i].no = no
    ELSE 0

SessionOpen(conns, con, no) ==
    \E i \in DOMAIN conns :
        conns[i].no = con /\ no \in SessNos(conns[i])

\* all open sessions as (connection number, session number) pairs
OpenSessions(conns) ==
    UNION {{<<conns[i].no, conns[i].sessions[j].no>> : j \in DOMAIN conns[i].sessions} :
              i \in DOMAIN conns}

RemoveAt(seq, k) == SubSeq(seq, 1, k - 1) \o SubSeq(seq, k + 1, Len(seq))

\* GuiConnection.CloseSession on the host: the session leaves its connection, and
\* a connection left without sessions leaves the application
HostClose(conns, con, no) ==
    LET i == ConnPos(conns, con)
        j == CHOOSE k \in DOMAIN conns[i].sessions : conns[i].sessions[k].no = no
        rest == RemoveAt(conns[i].sessions, j)
    IN IF rest = <<>>
       THEN RemoveAt(conns, i)
       ELSE [conns EXCEPT ![i].sessions = rest]

\* a new connection with one session, appended to the collection
HostOpen(conns, info) ==
    Append(conns, [no |-> FreeNo(ConnNos(conns)), info |-> info,
                   sessions |-> <<[no |-> 0]>>])

----------------------------------------------------------------------------
(* Ids of the host's objects, as character strings: '/app/con[0]/ses[0]' *)

DigitChar == <<"0", "1", "2", "3", "4", "5", "6", "7", "8", "9">>
DigitSet == {DigitChar[i] : i \in DOMAIN DigitChar}

RECURSIVE Digits(_)
Digits(n) ==
    IF n < 10
    THEN <<DigitChar[n + 1]>>
    ELSE Digits(n \div 10) \o <<DigitChar[(n % 10) + 1]>>

ConnectionId(no) ==
    <<"/", "a", "p", "p", "/", "c", "o", "n", "[">> \o Digits(no) \o <<"]">>

SessionId(con, no) ==
    ConnectionId(con) \o <<"/", "s", "e", "s", "[">> \o Digits(no) \o <<"]">>

\* re.findall("[0-9]", text): every single digit character, in order
re_findall_digit(text) == SelectSeq(text, LAMBDA ch : ch \in DigitSet)

\* int() of a one-digit string
int(ch) == CHOOSE d \in 0 .. 9 : DigitChar[d + 1] = ch

----------------------------------------------------------------------------
(* The handles the wrapper keeps.  st is "None" (never set), "live", or     *)
(* "stale" (the host object the handle refers to is gone).                  *)

NoConn == [st |-> "None", no |-> 0]
NoSess == [st |-> "None", con |-> 0, no |-> 0]
NoWnd == [st |-> "None", con |-> 0, ses |-> 0, wnd |-> 0]

ConnHandle(conn) == [st |-> "live", no |-> conn.no]
SessHandle(conn, ses) == [st |-> "live", con |-> conn.no, no |-> ses.no]
WndHandle(sh, w) == [st |-> "live", con |-> sh.con, ses |-> sh.no, wnd |-> w]

StaleConn == [st |-> "stale", no |-> 0]
StaleSess == [st |-> "stale", con |-> 0, no |-> 0]
StaleWnd == [st |-> "stale", con |-> 0, ses |-> 0, wnd |-> 0]

\* a handle that is reset to None when its session is closed
ForgetSess(h, conns) ==
    IF h.st = "live" /\ ~(\E i \in DOMAIN conns :
                             conns[i].no = h.con
                             /\ h.no \in {conns[i].sessions[j].no : j \in DOMAIN conns[i].sessions})
    THEN NoSess ELSE h

\* what becomes of the handles when the host changes to (run, conns): a handle
\* whose object is gone is stale for good, whatever is created later
AgeApp(a, run) == IF a = "live" /\ ~run THEN "stale" ELSE a
AgeConn(h, conns) ==
    IF h.st = "live" /\ h.no \notin ConnNos(conns) THEN StaleConn ELSE h
AgeSess(h, conns) ==
    IF h.st = "live" /\ ~SessionOpen(conns, h.con, h.no) THEN StaleSess ELSE h
AgeWnd(h, conns) ==
    IF h.st = "live" /\ ~SessionOpen(conns, h.con, h.ses) THEN StaleWnd ELSE h

\* the host connection a live connection handle refers to
ConnOf(h) == connections[ConnPos(connections, h.no)]

----------------------------------------------------------------------------
(* What the caller sees of a call *)

\* failed: "none"; "probe" when a lookup answered 'could not be found' to an
\* existence check; "call" when any other underlying call failed
Call(op, args, env, result, exc, failed) ==
    [op |-> op, args |-> args, env |-> env, result |-> result, exc |-> exc,
     failed |-> failed, val |-> <<>>, calls |-> <<>>, reads |-> <<>>]

\* a call that returned the value val
CallVal(op, args, env, val) ==
    [op |-> op, args |-> args, env |-> env, result |-> "value", exc |-> "",
     failed |-> "none", val |-> val, calls |-> <<>>, reads |-> <<>>]

\* the calls the operation made on the host's objects, in the order it made
\* them (kept for the operations whose order of calls matters)
WithCalls(call, calls) == [call EXCEPT !.calls = calls]

\* the cells the operation read with GetCellValue, as (row index, column index)
\* pairs in the order of the reads (kept for the scans of the grid)
WithReads(call, reads) == [call EXCEPT !.reads = reads]

NoCall == Call("init", <<>>, <<>>, "None", "", "none")

----------------------------------------------------------------------------
(* Exception texts, as word sequences, and Python's substring test *)

MsgNotFound == <<"The", "control", "could", "not", "be", "found", "by", "id", ".">>
MsgBusy == <<"The", "session", "is", "busy", ".">>
MsgRpc == <<"The", "RPC", "server", "is", "unavailable", ".">>
MsgAttr == <<"'NoneType'", "object", "has", "no", "attribute", "'findById'">>
NotFoundText == <<"The", "control", "could", "not", "be", "found", "by", "id">>

\* the test for the whole text, where the code tests for a part of it
ContainsWhole(text, needle) == text = needle

\* needle in text
Contains(text, needle) ==
    \E i \in 1 .. (Len(text) - Len(needle) + 1) :
        SubSeq(text, i, i + Len(needle) - 1) = needle

\* str.upper() on the strings of the model
Upper(str) ==
    CASE str = "user" -> "USER"
      [] str = "prt" -> "PRT"
      [] str = "dev" -> "DEV"
      [] str = "qas" -> "QAS"
      [] str = "srvprt" -> "SRVPRT"
      [] str = "srvdev" -> "SRVDEV"
      [] str = "SrvDev" -> "SRVDEV"
      [] str = "srvqas" -> "SRVQAS"
      [] OTHER -> str

\* the connection details a caller may pass to activate_session
DetailsPrt == [user |-> "user", sid |-> "prt", server |-> "SRVPRT", client |-> "900"]
DetailsDev == [user |-> "USER", sid |-> "DEV", server |-> "srvdev", client |-> "900"]
DetailsQas == [user |-> "user", sid |-> "qas", server |-> "srvqas", client |-> "900"]
DetailArgs == Opt({DetailsPrt, DetailsQas})

\* session.findById(field_id) on the handle sh: <<>> when the control is found,
\* else the text of the error.  answer is what a live session answers.
LookupAnswers == {"found", "notfound", "other"}
Answers(sh) == IF sh.st = "live" THEN LookupAnswers ELSE {"dead"}
findById(sh, answer) ==
    IF sh.st = "None" THEN MsgAttr
    ELSE IF sh.st = "stale" THEN MsgRpc
    ELSE IF answer = "found" THEN <<>>
    ELSE IF answer = "notfound" THEN MsgNotFound
    ELSE MsgBusy

----------------------------------------------------------------------------
(* Initial states *)

EmptyGrid ==
    [RowCount |-> 0, ColumnOrder |-> <<>>, cells |-> <<>>,
     CurrentCellRow |-> -1, CurrentCellColumn |-> "", SelectedRows |-> <<>>]

Init ==
    /\ running = FALSE
    /\ connections = <<>>
    /\ application = "None"
    /\ active_connection = NoConn
    /\ active_session = NoSess
    /\ active_window = NoWnd
    /\ last = NoCall
    /\ grid = EmptyGrid
    /\ opening = <<>>

----------------------------------------------------------------------------
(* SapGui.open_new_session *)

\* the status check after the login, were it to test for type 'A'
LoginOkAbort(type) == type # "A"

\* the status check after the login
LoginOk(type) == type # "E"

\* the first member of a collection, where the latest is meant
First(coll) == Item(coll, 0)

\* the latest member of a collection: coll[coll.Count - 1]
Latest(coll) == Item(coll, Count(coll) - 1)

\* the exception of __get_object when the lookup fails; no call is made on
\* any control
CannotFind(op, args, env, field_id) ==
    Call(op, args, env, "raise", "Cannot find the field: " \o field_id \o ".", "call")

\* the call of open_new_session that fails after the sleep: none,
\* GetObject('SAPGUI') (line 75), connections[Count - 1] (line 78),
\* sessions[Count - 1] (line 80), findById('wnd[0]') (line 81), or a call of
\* the login (lines 83 to 89)
Faults == {"none", "GetObject", "connections", "sessions", "window", "login"}

\* what lines 91 to 94 meet.  "none": no popup 'wnd[1]'; "other": the probe for
\* it meets an error other than 'not found'; "info": a popup without the option
\* of the multiple logon; "info_other": the probe for the option meets another
\* error; "multi": the popup of the multiple logon, answered; "select",
\* "press": that popup, and select() or press_button() cannot find its field
Popups == {"none", "other", "info", "info_other", "multi", "select", "press"}
PopupRaises == {"other", "info_other", "select", "press"}

\* the start of SAPgui.exe (lines 68 to 71): it succeeds, it fails with a
\* subprocess error, which is raised again as Exception, or the executable is
\* missing, and the FileNotFoundError, which the except clause does not name,
\* reaches the caller as it is
Launches == {"ok", "fail", "missing"}

\* lines 67 to 73: SAPgui.exe is started and the call sleeps; the host has the
\* new connection when the start succeeds
open_new_session_launch(info, launch) ==
    /\ opening = <<>>
    /\ launch = "ok" => TotalSessions(connections) < MaxSessions
    /\ IF launch # "ok"
       THEN /\ last' = Call("open_new_session", <<info>>,
                            <<launch, "none", "S", "none", "found">>, "raise",
                            IF launch = "fail" THEN "Exception" ELSE "FileNotFoundError",
                            "call")
            /\ UNCHANGED <<running, connections, opening>>
       ELSE /\ running' = TRUE
            /\ connections' = HostOpen(connections, info)
            /\ opening' = <<info>>
            /\ last' = Call("check_call", <<info>>, <<"ok">>, "None", "", "none")
    /\ UNCHANGED <<application, active_connection, active_session, active_window, grid>>

\* lines 75 to 99: after the sleep the host is read as it is by then
open_new_session_bind(popup, type, fault, sbar) ==
    LET info == opening[1]
        env == <<"ok", popup, type, fault, sbar>>
        conn == Latest(connections)
        ses == Latest(conn.sessions)
        sh == SessHandle(conn, ses)
        ok == LoginOk(type)
        op == "open_new_session"
    IN /\ opening # <<>>
       /\ opening' = <<>>
       /\ ~running => fault = "GetObject"
       /\ connections = <<>> => fault \in {"GetObject", "connections"}
       /\ fault # "none" => popup = "none"
       /\ (fault # "none" \/ popup \in PopupRaises) => sbar = "found"
       /\ (fault # "none" \/ popup \in PopupRaises \/ sbar # "found") => type = "S"
       /\ application' = IF fault = "GetObject" THEN application ELSE "live"
       /\ active_connection' =
              IF fault \in {"GetObject", "connections"} THEN active_connection
              ELSE ConnHandle(conn)
       /\ active_session' =
              IF fault \in {"GetObject", "connections", "sessions"} THEN active_session
              ELSE sh
       /\ active_window' =
              IF fault \in {"GetObject", "connections", "sessions", "window"}
              THEN active_window
              ELSE WndHandle(sh, 0)
       /\ last' =
              IF fault # "none"
              THEN Call(op, <<info>>, env, "raise", "error", "call")
              ELSE IF popup \in {"other", "info_other"}
              THEN Call(op, <<info>>, env, "raise", "Exception", "call")
              ELSE IF popup = "select"
              THEN CannotFind(op, <<info>>, env, "wnd[1]/usr/radMULTI_LOGON_OPT2")
              ELSE IF popup = "press"
              THEN CannotFind(op, <<info>>, env, "wnd[1]/tbar[0]/btn[0]")
              ELSE IF findById(sh, sbar) # <<>>
              THEN CannotFind(op, <<info>>, env, "wnd[0]/sbar")
              ELSE Call(op, <<info>>, env,
                        IF ok THEN "True" ELSE "raise",
                        IF ok THEN "" ELSE "E : text",
                        IF popup \in {"none", "info"} THEN "probe" ELSE "none")
       /\ UNCHANGED <<running, connections, grid>>

\* the host's user opens one more session on the connection at position i
HostCreateSession(i) ==
    /\ i \in DOMAIN connections
    /\ TotalSessions(connections) < MaxSessions
    /\ connections' =
           [connections EXCEPT
               ![i].sessions = Append(@, [no |-> FreeNo(SessNos(connections[i]))])]
    /\ last' = Call("HostCreateSession", <<i>>, <<>>, "None", "", "none")
    /\ UNCHANGED <<running, application, active_connection, active_session,
                   active_window, grid, opening>>

\* the host's user opens a connection to a system
HostOpenConnection(info) ==
    /\ running
    /\ TotalSessions(connections) < MaxSessions
    /\ connections' = HostOpen(connections, info)
    /\ last' = Call("HostOpenConnection", <<info>>, <<>>, "None", "", "none")
    /\ UNCHANGED <<running, application, active_connection, active_session,
                   active_window, grid, opening>>

\* the host's user, or another client of the host, closes the session at
\* position j of the connection at position i
HostCloseSession(i, j) ==
    /\ i \in DOMAIN connections
    /\ j \in DOMAIN connections[i].sessions
    /\ \E conns \in {HostClose(connections, connections[i].no,
                                connections[i].sessions[j].no)} :
          /\ connections' = conns
          /\ active_connection' = AgeConn(active_connection, conns)
          /\ active_session' = AgeSess(active_session, conns)
          /\ active_window' = AgeWnd(active_window, conns)
    /\ last' = Call("HostCloseSession", <<i, j>>, <<>>, "None", "", "none")
    /\ UNCHANGED <<running, application, grid, opening>>

\* the host application ends (its user exits, or another client kills it)
HostExit ==
    /\ running
    /\ running' = FALSE
    /\ connections' = <<>>
    /\ application' = AgeApp(application, FALSE)
    /\ active_connection' = AgeConn(active_connection, <<>>)
    /\ active_session' = AgeSess(active_session, <<>>)
    /\ active_window' = AgeWnd(active_window, <<>>)
    /\ last' = Call("HostExit", <<>>, <<>>, "None", "", "none")
    /\ UNCHANGED <<grid, opening>>

----------------------------------------------------------------------------
(* SapGui.activate_session *)

\* the condition of the search by connection details
MatchesDetails(info, d) ==
    /\ info.sid = Upper(d.sid)
    /\ info.client = d.client
    /\ info.user = Upper(d.user)
    /\ Upper(info.server) = Upper(d.server)

Resolved(ac, as, ok) == [ac |-> ac, as |-> as, ok |-> ok]

\* the connection and the session the indexes or the details resolve to, and
\* whether every lookup succeeded
ActivateResolve(c, s, d) ==
    LET conns == connections
        keep == Resolved(active_connection, active_session, TRUE)
        fail == Resolved(active_connection, active_session, FALSE)
        lastConn == Latest(conns)
        pick(conn, k) ==
            IF HasItem(conn.sessions, k)
            THEN Resolved(ConnHandle(conn), SessHandle(conn, Item(conn.sessions, k)), TRUE)
            ELSE Resolved(ConnHandle(conn), active_session, FALSE)
    IN IF ~IsNone(c) /\ ~IsNone(s)
       THEN IF HasItem(conns, Val(c)) THEN pick(Item(conns, Val(c)), Val(s)) ELSE fail
       ELSE IF IsNone(c) /\ ~IsNone(s)
       THEN IF active_connection.st = "None"
            THEN IF conns = <<>> THEN fail ELSE pick(lastConn, Val(s))
            ELSE IF active_connection.st = "stale" THEN fail
            ELSE pick(ConnOf(active_connection), Val(s))
       ELSE IF IsNone(c) /\ IsNone(s)
       THEN IF ~IsNone(d)
            THEN LET matches == {i \in DOMAIN conns : MatchesDetails(conns[i].info, Val(d))}
                 IN IF matches = {} THEN keep
                    ELSE LET i == CHOOSE m \in matches : \A n \in matches : n <= m
                         IN pick(conns[i], Count(conns[i].sessions) - 1)
            ELSE IF conns = <<>> THEN fail
            ELSE pick(lastConn, Count(lastConn.sessions) - 1)
       ELSE keep

\* an except clause that passes where the code raises
Swallowed(ok) == "None"

\* the except clause: the failure is raised again, wrapped
Wrapped(ok) == IF ok THEN "None" ELSE "raise"

\* w is the index of the last window of the session that is resolved, the
\* value of Children.Count - 1 (line 162)
activate_session(c, s, d, w) ==
    /\ opening = <<>>
    /\ UNCHANGED opening
    /\ IF ~running
       THEN /\ w = 0
            /\ last' = Call("activate_session", <<c, s, d>>, <<w>>, "raise",
                            "Cannot connect to SAPGUI session. SAPGUI seems to be not opened.",
                            "call")
            /\ UNCHANGED <<running, connections, grid, application, active_connection,
                           active_session, active_window>>
       ELSE \E r \in {ActivateResolve(c, s, d)} :
            \E ok \in {r.ok /\ r.as.st = "live"} :
               /\ ~ok => w = 0
               /\ application' = "live"
               /\ active_connection' = r.ac
               /\ active_session' = r.as
               /\ active_window' = IF ok THEN WndHandle(r.as, w) ELSE active_window
               /\ last' = Call("activate_session", <<c, s, d>>, <<w>>,
                               Wrapped(ok),
                               IF ok THEN ""
                               ELSE "Cannot activate session. Please verify provided properties are correct.",
                               IF ok THEN "none" ELSE "call")
               /\ UNCHANGED <<running, connections, grid>>

----------------------------------------------------------------------------
(* SapGui.check_if_session_exists *)

\* the try block without the lookup of the session in the connection
SessionLookupConnectionOnly(c, s) ==
    LET con_index == IF ~IsNone(c) THEN Val(c) ELSE Count(connections) - 1
    IN HasItem(connections, con_index)

\* the body of the try block: TRUE when every lookup succeeds and yields a session
SessionLookup(c, s) ==
    LET con_index == IF ~IsNone(c) THEN Val(c) ELSE Count(connections) - 1
    IN /\ HasItem(connections, con_index)
       /\ LET sessions == Item(connections, con_index).sessions
              ses_index == IF ~IsNone(s) THEN Val(s) ELSE Count(sessions) - 1
          IN HasItem(sessions, ses_index)

check_if_session_exists(c, s) ==
    /\ opening = <<>>
    /\ UNCHANGED opening
    /\ LET found == running /\ SessionLookup(c, s)
       IN /\ application' = IF running THEN "live" ELSE application
          /\ last' = Call("check_if_session_exists", <<c, s>>, <<>>,
                          IF found THEN "True" ELSE "False", "",
                          IF found THEN "none" ELSE "call")
          /\ UNCHANGED <<running, connections, active_connection, active_session,
                         active_window, grid>>

----------------------------------------------------------------------------
(* SapGui.close_session *)

\* self.connections[connection_index], through the stored application handle
ConnectionByIndex(k) ==
    IF application = "live" /\ HasItem(connections, k)
    THEN ConnHandle(Item(connections, k))
    ELSE NoConn

\* close_session, were it to take the session from the active connection
\* (self.sessions[session_index]) and not from the connection it resolved
CloseResolveActiveConnection(c, s) ==
    LET ch == IF IsNone(c) THEN active_connection ELSE ConnectionByIndex(Val(c))
        conOk == IsNone(c) \/ ch.st = "live"
        ah == active_connection
    IN IF ~conOk THEN Resolved(ch, NoSess, FALSE)
       ELSE IF IsNone(s) THEN Resolved(ch, active_session, TRUE)
       ELSE IF ah.st = "live" /\ HasItem(ConnOf(ah).sessions, Val(s))
            THEN Resolved(ch, SessHandle(ConnOf(ah), Item(ConnOf(ah).sessions, Val(s))), TRUE)
            ELSE Resolved(ch, NoSess, FALSE)

\* the connection and the session close_session and get_session_info work on;
\* ok is FALSE when a lookup raised
CloseResolve(c, s) ==
    LET ch == IF IsNone(c) THEN active_connection ELSE ConnectionByIndex(Val(c))
        conOk == IsNone(c) \/ ch.st = "live"
    IN IF ~conOk THEN Resolved(ch, NoSess, FALSE)
       ELSE IF IsNone(s) THEN Resolved(ch, active_session, TRUE)
       ELSE IF ch.st = "live" /\ HasItem(ConnOf(ch).sessions, Val(s))
            THEN Resolved(ch, SessHandle(ConnOf(ch), Item(ConnOf(ch).sessions, Val(s))), TRUE)
            ELSE Resolved(ch, NoSess, FALSE)

close_session(c, s, answer) ==
    /\ opening = <<>>
    /\ UNCHANGED opening
    /\ \E r \in {CloseResolve(c, s)} :
       \E reached \in {r.ok /\ r.ac.st = "live" /\ r.as.st = "live"} :
       \E closed \in {reached /\ answer = "ok"} :
       \E conns \in {IF closed THEN HostClose(connections, r.as.con, r.as.no)
                      ELSE connections} :
          /\ ~reached => answer = "ok"
          /\ connections' = conns
          /\ active_connection' = AgeConn(active_connection, conns)
          /\ active_session' = AgeSess(active_session, conns)
          /\ active_window' = AgeWnd(active_window, conns)
          /\ last' = WithCalls(
                         Call("close_session", <<c, s>>, <<answer>>,
                              IF closed THEN "None" ELSE "raise",
                              IF closed THEN "" ELSE "error",
                              IF closed THEN "none" ELSE "call"),
                         IF reached
                         THEN <<[call |-> "CloseSession", on |-> ConnectionId(r.ac.no),
                                 id |-> SessionId(r.as.con, r.as.no)]>>
                         ELSE <<>>)
          /\ UNCHANGED <<running, application, grid>>

----------------------------------------------------------------------------
(* SapGui.get_session_info *)

\* the entries 'connection index' and 'session index' of the result: the Id of
\* the connection and the Id of the session
get_session_info(c, s) ==
    /\ opening = <<>>
    /\ UNCHANGED opening
    /\ \E r \in {CloseResolve(c, s)} :
       \E reached \in {r.ok /\ r.ac.st = "live" /\ r.as.st = "live"} :
          /\ IF reached
             THEN last' = CallVal("get_session_info", <<c, s>>, <<>>,
                                  [connection_index |-> ConnectionId(r.ac.no),
                                   session_index |-> SessionId(r.as.con, r.as.no)])
             ELSE last' = Call("get_session_info", <<c, s>>, <<>>, "raise", "error", "call")
          /\ UNCHANGED <<running, connections, application, active_connection,
                         active_session, active_window, grid>>

----------------------------------------------------------------------------
(* SapGui.close_all_sessions *)

Ran(conns, failed) == [conns |-> conns, failed |-> failed]

\* every session of every connection, in the order of the collections
AllSessions(conns) ==
    LET RECURSIVE Flat(_)
        Flat(i) ==
            IF i > Len(conns) THEN <<>>
            ELSE [j \in DOMAIN conns[i].sessions |->
                     <<conns[i].no, conns[i].sessions[j].no>>] \o Flat(i + 1)
    IN Flat(1)

\* the loops over enumerators that hold the members as they were when the
\* enumeration began; the failAt-th CloseSession call raises (0: none does)
RECURSIVE SnapshotRun(_, _, _, _)
SnapshotRun(conns, visits, k, failAt) ==
    IF k > Len(visits) THEN Ran(conns, FALSE)
    ELSE IF k = failAt THEN Ran(conns, TRUE)
    ELSE SnapshotRun(HostClose(conns, visits[k][1], visits[k][2]), visits, k + 1, failAt)

\* the loops over enumerators that follow the collection as it shrinks: i and j
\* are the positions of the outer and the inner enumerator, con the number of
\* the connection the inner loop is in (-1 between connections)
RECURSIVE LiveRun(_, _, _, _, _, _)
LiveRun(conns, i, con, j, k, failAt) ==
    IF con = -1
    THEN IF ~HasItem(conns, i) THEN Ran(conns, FALSE)
         ELSE LiveRun(conns, i, Item(conns, i).no, 0, k, failAt)
    ELSE IF con \notin ConnNos(conns) \/ ~HasItem(conns[ConnPos(conns, con)].sessions, j)
    THEN LiveRun(conns, i + 1, -1, 0, k, failAt)
    ELSE IF k = failAt THEN Ran(conns, TRUE)
    ELSE LiveRun(HostClose(conns, con, Item(conns[ConnPos(conns, con)].sessions, j).no),
                 i, con, j + 1, k + 1, failAt)

CloseAllRun(conns, mode, failAt) ==
    IF mode = "snapshot"
    THEN SnapshotRun(conns, AllSessions(conns), 1, failAt)
    ELSE LiveRun(conns, 0, -1, 0, 1, failAt)

close_all_sessions(mode, failAt) ==
    /\ opening = <<>>
    /\ UNCHANGED opening
    /\ failAt <= TotalSessions(connections)
    /\ ~running => mode = "snapshot"
    /\ \E ran \in {IF running THEN CloseAllRun(connections, mode, failAt)
                    ELSE Ran(connections, TRUE)} :
          /\ connections' = ran.conns
          /\ application' = IF running THEN "live" ELSE application
          /\ active_connection' = AgeConn(active_connection, ran.conns)
          /\ active_session' = AgeSess(active_session, ran.conns)
          /\ active_window' = AgeWnd(active_window, ran.conns)
          /\ last' = Call("close_all_sessions", <<>>, <<mode, failAt>>, "None", "",
                          IF ran.failed THEN "call" ELSE "none")
          /\ UNCHANGED <<running, grid>>

----------------------------------------------------------------------------
(* SapGui.set_active_window *)

WindowIndexes == {0, 1}

set_active_window(index, answer) ==
    /\ opening = <<>>
    /\ UNCHANGED opening
    /\ \E ex \in {findById(active_session, answer)} :
          /\ active_window' = IF ex = <<>> THEN WndHandle(active_session, index)
                                           ELSE active_window
          /\ last' = Call("set_active_window", <<index>>, <<answer>>,
                          IF ex = <<>> THEN "None" ELSE "raise",
                          IF ex = <<>> THEN "" ELSE "error",
                          IF ex = <<>> THEN "none" ELSE "call")
          /\ UNCHANGED <<running, connections, application, active_connection,
                         active_session, grid>>

----------------------------------------------------------------------------
(* SapGui.close_sap_logon *)

close_sap_logon(outcome) ==
    /\ opening = <<>>
    /\ UNCHANGED opening
    /\ /\ outcome = "killed" => running
       /\ IF outcome = "killed"
          THEN /\ running' = FALSE
               /\ connections' = <<>>
               /\ application' = AgeApp(application, FALSE)
               /\ active_connection' = AgeConn(active_connection, <<>>)
               /\ active_session' = AgeSess(active_session, <<>>)
               /\ active_window' = AgeWnd(active_window, <<>>)
          ELSE UNCHANGED <<running, connections, application, active_connection,
                           active_session, active_window>>
       /\ last' = Call("close_sap_logon", <<>>, <<outcome>>, "None", "",
                       IF outcome = "killed" THEN "none" ELSE "call")
       /\ UNCHANGED grid

----------------------------------------------------------------------------
(* SapGui.check_if_object_exists and the control accessors *)

FieldIds == {"wnd[1]"}

check_if_object_exists(field_id, answer) ==
    /\ opening = <<>>
    /\ UNCHANGED opening
    /\ \E ex \in {findById(active_session, answer)} :
          /\ last' = Call("check_if_object_exists", <<field_id>>, <<answer>>,
                          IF ex = <<>> THEN "True"
                          ELSE IF Contains(ex, NotFoundText) THEN "False"
                          ELSE "raise",
                          IF ex = <<>> \/ Contains(ex, NotFoundText) THEN "" ELSE "Exception",
                          IF ex = <<>> THEN "none"
                          ELSE IF Contains(ex, NotFoundText) THEN "probe"
                          ELSE "call")
          /\ UNCHANGED <<running, connections, application, active_connection,
                         active_session, active_window, grid>>

\* SapGui.__is_object__
is_object(answer) == findById(active_session, answer) = <<>>

\* SapGui.get_text: the lookup of __get_object, then the read of Text
get_text(field_id, answer, read) ==
    /\ opening = <<>>
    /\ UNCHANGED opening
    /\ LET found == is_object(answer)
           ok == found /\ read = "ok"
       IN /\ ~found => read = "ok"
          /\ last' = WithCalls(
                         Call("get_text", <<field_id>>, <<answer, read>>,
                              IF ok THEN "text" ELSE "raise",
                              IF ok THEN ""
                              ELSE IF ~found THEN "Cannot find the field: " \o field_id \o "."
                              ELSE "error",
                              IF findById(active_session, answer) = <<>> /\ read = "ok"
                              THEN "none" ELSE "call"),
                         IF found THEN <<"Text">> ELSE <<>>)
          /\ UNCHANGED <<running, connections, application, active_connection,
                         active_session, active_window, grid>>

----------------------------------------------------------------------------
(* SapGui.run_transaction *)

\* the message types of the status bar: success, warning, error, abort, none
StatusTypes == {"S", "W", "E", "A", ""}

\* the status check, were a message of type 'A' an error too
transaction_ok_strict(type) == type \notin {"E", "A"}

\* the status check after the start of the transaction
transaction_ok(type) == type # "E"

\* start: what StartTransaction answers on a live session; answer: the lookup
\* of 'wnd[0]/sbar' by get_status_bar_message; type: the MessageType it reads
run_transaction(transaction_code, start, answer, type) ==
    /\ opening = <<>>
    /\ UNCHANGED opening
    /\ LET op == "run_transaction"
           env == <<start, answer, type>>
           started == active_session.st = "live" /\ start = "ok"
       IN /\ active_session.st # "live" => start = "fail"
          /\ ~started => answer \in {"found", "dead"} /\ type = ""
          /\ ~is_object(answer) => type = ""
          /\ IF ~started
             THEN last' = WithCalls(Call(op, <<transaction_code>>, env, "raise", "error", "call"),
                                    IF active_session.st = "None" THEN <<>>
                                    ELSE <<"StartTransaction">>)
             ELSE IF ~is_object(answer)
             THEN last' = WithCalls(CannotFind(op, <<transaction_code>>, env, "wnd[0]/sbar"),
                                    <<"StartTransaction">>)
             ELSE last' = WithCalls(
                      Call(op, <<transaction_code>>, env,
                           IF transaction_ok(type) THEN "None" ELSE "raise",
                           IF transaction_ok(type) THEN "" ELSE type \o " : text",
                           "none"),
                      <<"StartTransaction", "Text", "MessageType">>)
          /\ UNCHANGED <<running, connections, application, active_connection,
                         active_session, active_window, grid>>

----------------------------------------------------------------------------
(* The queries that read the handles *)

Returned(v) == [result |-> "ok", val |-> v]
Raised == [result |-> "raise", val |-> 0]

\* the Id an object handle reads; only a live handle answers
get_connection_index ==
    IF active_connection.st # "live" THEN Raised
    ELSE Returned(int(re_findall_digit(ConnectionId(active_connection.no))[1]))

get_session_index ==
    IF active_session.st # "live" THEN Raised
    ELSE LET found == re_findall_digit(SessionId(active_session.con, active_session.no))
         IN Returned(int(found[Len(found)]))

\* the count, were it the index of the latest connection
count_connections_latest ==
    IF application # "live" THEN Raised ELSE Returned(Count(connections) - 1)

count_connections ==
    IF application # "live" THEN Raised ELSE Returned(Count(connections))

----------------------------------------------------------------------------
(* The grid control and GridView.get_cell_address_by_cell_value *)

ColNamePool == <<"MANDT", "BNAME", "QNUM", "TEXT">>
ColNames == {ColNamePool[i] : i \in 1 .. MaxCols}
CellValues == {"SO99", "X1"}
SearchValues == CellValues \cup {"NONE"}

Range(seq) == {seq[i] : i \in DOMAIN seq}

\* the column orders: the sequences of distinct column names
ColumnOrders ==
    {o \in UNION {[1 .. n -> ColNames] : n \in 0 .. MaxCols} :
        \A i \in DOMAIN o, j \in DOMAIN o : o[i] = o[j] => i = j}

\* strings are sequences of characters; sep.join(items)
RECURSIVE join(_, _)
join(sep, items) ==
    IF items = <<>> THEN <<>>
    ELSE IF Len(items) = 1 THEN items[1]
    ELSE items[1] \o sep \o join(sep, Tail(items))

\* text.split(sep) for a separator of one character
RECURSIVE split(_, _)
split(text, sep) ==
    IF sep \notin Range(text) THEN <<text>>
    ELSE LET i == CHOOSE k \in DOMAIN text :
                      text[k] = sep /\ \A m \in 1 .. (k - 1) : text[m] # sep
         IN <<SubSeq(text, 1, i - 1)>> \o split(SubSeq(text, i + 1, Len(text)), sep)

\* str() and int() between a row index and its decimal digits
str_of_int(n) == Digits(n)
IsDecimal(text) == text # <<>> /\ Range(text) \subseteq DigitSet
RECURSIVE int_of_str(_)
int_of_str(text) ==
    IF Len(text) = 1 THEN int(text[1])
    ELSE 10 * int_of_str(SubSeq(text, 1, Len(text) - 1)) + int(text[Len(text)])

\* the values of the host's SelectedRows for a grid of r rows: a comma-separated
\* list of single indexes and 'a-b' ranges, in ascending order
SelectionItems(r) ==
    {[lo |-> a, hi |-> a, text |-> str_of_int(a)] : a \in 0 .. r - 1}
    \cup {[lo |-> p[1], hi |-> p[2], text |-> str_of_int(p[1]) \o <<"-">> \o str_of_int(p[2])] :
             p \in {q \in (0 .. r - 1) \X (0 .. r - 1) : q[1] < q[2]}}
Selections(r) ==
    {<<>>} \cup {x.text : x \in SelectionItems(r)}
    \cup {p[1].text \o <<",">> \o p[2].text :
             p \in {q \in SelectionItems(r) \X SelectionItems(r) : q[1].hi < q[2].lo}}

\* the grids: the cells, the current cell and the row selection
Grids ==
    UNION {{[RowCount |-> r, ColumnOrder |-> o, cells |-> f,
             CurrentCellRow |-> row, CurrentCellColumn |-> col, SelectedRows |-> sel] :
               f \in [(0 .. r - 1) \X Range(o) -> CellValues],
               row \in (IF r = 0 THEN {-1} ELSE 0 .. r - 1),
               col \in (IF o = <<>> THEN {""} ELSE Range(o)),
               sel \in Selections(r)} :
              r \in 0 .. MaxRows, o \in ColumnOrders}

\* grid_view.GetCellValue(row, column name)
GetCellValue(g, row, name) == g.cells[<<row, name>>]

Cell_Address(row, column) == [row |-> row, column |-> column]

\* GridView.__get_cell_address_by_value__, stopping at the first match
RECURSIVE ScanFirstOnly(_, _, _, _)
ScanFirstOnly(g, cell_value, row_index, column_index) ==
    IF row_index >= g.RowCount THEN <<>>
    ELSE IF column_index >= Count(g.ColumnOrder)
    THEN ScanFirstOnly(g, cell_value, row_index + 1, 0)
    ELSE IF cell_value = GetCellValue(g, row_index, Item(g.ColumnOrder, column_index))
    THEN <<Cell_Address(row_index, column_index)>>
    ELSE ScanFirstOnly(g, cell_value, row_index, column_index + 1)

\* GridView.__get_cell_address_by_value__: the two loops, from (row_index,
\* column_index) on
RECURSIVE Scan(_, _, _, _)
Scan(g, cell_value, row_index, column_index) ==
    IF row_index >= g.RowCount THEN <<>>
    ELSE IF column_index >= Count(g.ColumnOrder)
    THEN Scan(g, cell_value, row_index + 1, 0)
    ELSE (IF cell_value = GetCellValue(g, row_index, Item(g.ColumnOrder, column_index))
          THEN <<Cell_Address(row_index, column_index)>>
          ELSE <<>>) \o Scan(g, cell_value, row_index, column_index + 1)

get_cell_address_first(g, cell_value) == ScanFirstOnly(g, cell_value, 0, 0)

get_cell_address_by_value(g, cell_value) == Scan(g, cell_value, 0, 0)

\* sap_gui.object(field_id): the control, when the lookup finds it
sap_gui_object(answer) == answer = "found"

get_cell_address_by_cell_value(cell_value, answer) ==
    /\ opening = <<>>
    /\ UNCHANGED opening
    /\ /\ IF ~sap_gui_object(answer)
          THEN last' = Call("get_cell_address_by_cell_value", <<cell_value>>, <<answer>>,
                            "raise", "error", "call")
          ELSE LET indexes == get_cell_address_by_value(grid, cell_value)
               IN IF Len(indexes) = 0
                  THEN last' = Call("get_cell_address_by_cell_value", <<cell_value>>,
                                    <<answer>>, "raise",
                                    "The GridView row not found for the value: " \o cell_value,
                                    "none")
                  ELSE last' = CallVal("get_cell_address_by_cell_value", <<cell_value>>,
                                       <<answer>>, indexes)
       /\ UNCHANGED <<running, connections, application, active_connection,
                      active_session, active_window, grid>>

----------------------------------------------------------------------------
(* The gridview operations of SapGui *)

GridId == "wnd[0]/shell"

Outcome(result, exc, val) == [result |-> result, exc |-> exc, val |-> val]

\* the loop of get_selected_gridview_rows over selected_rows.split(','), from
\* the k-th item on
RECURSIVE rows_list_from(_, _, _)
rows_list_from(rows, k, rows_list) ==
    IF k > Len(rows) THEN Outcome("value", "", rows_list)
    ELSE IF "-" \in Range(rows[k])
    THEN \* range(index_range[0], index_range[1]) of two strings
         Outcome("raise", "TypeError", <<>>)
    ELSE IF ~IsDecimal(rows[k])
    THEN Outcome("raise", "ValueError", <<>>)
    ELSE rows_list_from(rows, k + 1, Append(rows_list, int_of_str(rows[k])))

selected_rows_list(selected_rows) ==
    IF selected_rows = <<>> THEN Outcome("None", "", <<>>)
    ELSE rows_list_from(split(selected_rows, ","), 1, <<>>)

get_selected_gridview_rows(answer) ==
    /\ opening = <<>>
    /\ UNCHANGED opening
    /\ /\ IF ~is_object(answer)
          THEN last' = CannotFind("get_selected_gridview_rows", <<GridId>>, <<answer>>, GridId)
          ELSE LET r == selected_rows_list(grid.SelectedRows)
               IN last' = WithCalls([Call("get_selected_gridview_rows", <<GridId>>, <<answer>>,
                                          r.result, r.exc, "none") EXCEPT !.val = r.val],
                                    <<"SelectedRows">>)
       /\ UNCHANGED <<running, connections, application, active_connection,
                      active_session, active_window, grid>>

\* the row_indexes a caller may pass: a string, or a list of integers
StrRows(text) == [kind |-> "str", text |-> text, items |-> <<>>]
ListRows(items) == [kind |-> "list", text |-> <<>>, items |-> items]
RowIndexArgs ==
    {StrRows(<<"1">>), StrRows(<<"0", ",", "1">>), StrRows(<<"0", "-", "1">>),
     ListRows(<<0, 1>>), ListRows(<<1>>)}

\* isinstance(row_indexes, list[int]): list[int] is a parameterized generic,
\* for which isinstance raises TypeError whatever row_indexes is
isinstance_list_int(row_indexes) == "TypeError"

set_selected_gridview_rows(row_indexes, answer) ==
    /\ opening = <<>>
    /\ UNCHANGED opening
    /\ LET selected_rows ==
               IF row_indexes.kind = "str" THEN row_indexes.text
               ELSE join(<<",">>, [i \in DOMAIN row_indexes.items |->
                                     str_of_int(row_indexes.items[i])])
       IN IF isinstance_list_int(row_indexes) = "TypeError"
          THEN /\ last' = Call("set_selected_gridview_rows", <<GridId, row_indexes>>,
                               <<answer>>, "raise", "TypeError", "none")
               /\ UNCHANGED <<running, connections, application, active_connection,
                              active_session, active_window, grid>>
          ELSE IF ~is_object(answer)
          THEN /\ last' = CannotFind("set_selected_gridview_rows", <<GridId, row_indexes>>,
                                     <<answer>>, GridId)
               /\ UNCHANGED <<running, connections, application, active_connection,
                              active_session, active_window, grid>>
          ELSE /\ grid' = [grid EXCEPT !.SelectedRows = selected_rows]
               /\ last' = WithCalls(Call("set_selected_gridview_rows", <<GridId, row_indexes>>,
                                         <<answer>>, "None", "", "none"),
                                    <<"SelectedRows">>)
               /\ UNCHANGED <<running, connections, application, active_connection,
                              active_session, active_window>>

\* SapGui.__get_gridview_column_index__: the loop returns in its first pass,
\* the index 0 or None; <<>> is None
get_gridview_column_index(g, column_name) ==
    IF Count(g.ColumnOrder) = 0 THEN <<>>
    ELSE IF column_name = Item(g.ColumnOrder, 0) THEN <<0>> ELSE <<>>

GridViewCell(row, column) == [row |-> row, column |-> column]

get_current_gridview_cell(answer) ==
    /\ opening = <<>>
    /\ UNCHANGED opening
    /\ /\ IF ~is_object(answer)
          THEN last' = CannotFind("get_current_gridview_cell", <<GridId>>, <<answer>>, GridId)
          ELSE last' = WithCalls(
                   CallVal("get_current_gridview_cell", <<GridId>>, <<answer>>,
                           GridViewCell(grid.CurrentCellRow,
                                        get_gridview_column_index(grid, grid.CurrentCellColumn))),
                   <<"CurrentCellRow", "CurrentCellColumn">>)
       /\ UNCHANGED <<running, connections, application, active_connection,
                      active_session, active_window, grid>>

\* grid_view.GetColumnTitles(column name): the titles of a column, longest first
GetColumnTitles(name) ==
    CASE name = "MANDT" -> <<"Client", "Cl.">>
      [] name = "BNAME" -> <<"User Name", "User">>
      [] name = "QNUM" -> <<"Query", "Qry">>
      [] OTHER -> <<"Description", "Text">>

\* grid_view.ColumnCount
ColumnCount(g) == Count(g.ColumnOrder)

\* SapGui.__get_gridview_column_name__
get_gridview_column_name(g, column_index) == Item(g.ColumnOrder, column_index)

\* the headers, were they the names of the columns
get_gridview_header_names(g) == g.ColumnOrder

\* SapGui.__get_gridview_headers__
get_gridview_headers(g) ==
    [i \in 1 .. Count(g.ColumnOrder) |-> GetColumnTitles(g.ColumnOrder[i])[1]]

\* SapGui.__get_gridview_body__
get_gridview_body(g) ==
    [row_index \in 1 .. g.RowCount |->
        [column_index \in 1 .. ColumnCount(g) |->
            GetCellValue(g, row_index - 1, get_gridview_column_name(g, column_index - 1))]]

\* the reads of a body extraction that leaves out the last column
get_gridview_body_reads_short(g) ==
    LET RECURSIVE Rows(_)
        Rows(row_index) ==
            IF row_index >= g.RowCount THEN <<>>
            ELSE [column_index \in 1 .. (ColumnCount(g) - 1) |->
                     <<row_index, column_index - 1>>] \o Rows(row_index + 1)
    IN Rows(0)

\* the GetCellValue calls of SapGui.__get_gridview_body__, row after row
get_gridview_body_reads(g) ==
    LET RECURSIVE Rows(_)
        Rows(row_index) ==
            IF row_index >= g.RowCount THEN <<>>
            ELSE [column_index \in 1 .. ColumnCount(g) |->
                     <<row_index, column_index - 1>>] \o Rows(row_index + 1)
    IN Rows(0)

\* the methods of the grid the two builders call: GetColumnTitles once for
\* each column, GetCellValue once for each cell
get_gridview_calls(g) ==
    (IF Count(g.ColumnOrder) = 0 THEN <<>> ELSE <<"GetColumnTitles">>)
    \o (IF get_gridview_body_reads(g) = <<>> THEN <<>> ELSE <<"GetCellValue">>)

gridview_to_array(answer) ==
    /\ opening = <<>>
    /\ UNCHANGED opening
    /\ /\ IF ~is_object(answer)
          THEN last' = CannotFind("gridview_to_array", <<GridId>>, <<answer>>, GridId)
          ELSE last' = WithReads(WithCalls(
                   CallVal("gridview_to_array", <<GridId>>, <<answer>>,
                           <<get_gridview_headers(grid)>> \o get_gridview_body(grid)),
                   get_gridview_calls(grid)), get_gridview_body_reads(grid))
       /\ UNCHANGED <<running, connections, application, active_connection,
                      active_session, active_window, grid>>

gridview_to_dict(answer) ==
    /\ opening = <<>>
    /\ UNCHANGED opening
    /\ /\ IF ~is_object(answer)
          THEN last' = CannotFind("gridview_to_dict", <<GridId>>, <<answer>>, GridId)
          ELSE last' = WithReads(WithCalls(
                   CallVal("gridview_to_dict", <<GridId>>, <<answer>>,
                           [columns |-> get_gridview_headers(grid),
                            data |-> get_gridview_body(grid)]),
                   get_gridview_calls(grid)), get_gridview_body_reads(grid))
       /\ UNCHANGED <<running, connections, application, active_connection,
                      active_session, active_window, grid>>

\* grid_view.SetCurrentCell(row, column name): the host takes a cell of the
\* grid and refuses any other
CellInGrid(g, row, name) ==
    row \in 0 .. (g.RowCount - 1) /\ name \in Range(g.ColumnOrder)

\* SapGui.get_current_gridview_column_index: the first index of the current
\* column in the column order, None (<<>>) when the loop ends without one
get_current_gridview_column_index(g) ==
    LET found == {i \in 0 .. (Count(g.ColumnOrder) - 1) :
                     Item(g.ColumnOrder, i) = g.CurrentCellColumn}
    IN IF found = {} THEN <<>>
       ELSE <<CHOOSE i \in found : \A j \in found : i <= j>>

\* the row, were a row_index of 0 taken for an omitted one
row_or_current_falsy(row_index, g) ==
    IF IsNone(row_index) \/ Val(row_index) = 0 THEN g.CurrentCellRow ELSE Val(row_index)

\* row_index, or the current row when it is None
row_or_current(row_index, g) ==
    IF IsNone(row_index) THEN g.CurrentCellRow ELSE Val(row_index)

double_click_gridview_cell(row_index, column_index, answer) ==
    /\ opening = <<>>
    /\ UNCHANGED opening
    /\ LET op == "double_click_gridview_cell"
           args == <<GridId, row_index, column_index>>
           ci == IF IsNone(column_index) THEN get_current_gridview_column_index(grid)
                 ELSE column_index
           row == row_or_current(row_index, grid)
           same == UNCHANGED grid
       IN /\ IF ~is_object(answer)
             THEN last' = CannotFind(op, args, <<answer>>, GridId) /\ same
             ELSE IF IsNone(row_index) /\ IsNone(column_index)
             THEN /\ last' = WithCalls(Call(op, args, <<answer>>, "None", "", "none"),
                                       <<"DoubleClickCurrentCell">>)
                  /\ same
             ELSE IF IsNone(ci) \/ ~HasItem(grid.ColumnOrder, Val(ci))
             THEN /\ last' = WithCalls(Call(op, args, <<answer>>, "raise", "error", "call"),
                                       <<"ColumnOrder">>)
                  /\ same
             ELSE IF ~CellInGrid(grid, row, get_gridview_column_name(grid, Val(ci)))
             THEN /\ last' = WithCalls(Call(op, args, <<answer>>, "raise", "error", "call"),
                                       <<"ColumnOrder", "SetCurrentCell">>)
                  /\ same
             ELSE /\ grid' = [grid EXCEPT
                                 !.CurrentCellRow = row,
                                 !.CurrentCellColumn = get_gridview_column_name(grid, Val(ci)),
                                 !.SelectedRows = str_of_int(row)]
                  /\ last' = WithCalls(Call(op, args, <<answer>>, "None", "", "none"),
                                       <<"ColumnOrder", "SetCurrentCell", "currentCellRow",
                                         "selectedRows", "DoubleClickCurrentCell">>)
          /\ UNCHANGED <<running, connections, application, active_connection,
                         active_session, active_window>>

set_current_gridview_cell(row_index, column_index, answer) ==
    /\ opening = <<>>
    /\ UNCHANGED opening
    /\ LET op == "set_current_gridview_cell"
           args == <<GridId, row_index, column_index>>
       IN /\ IF ~is_object(answer)
             THEN last' = CannotFind(op, args, <<answer>>, GridId) /\ UNCHANGED grid
             ELSE IF ~HasItem(grid.ColumnOrder, column_index)
             THEN /\ last' = WithCalls(Call(op, args, <<answer>>, "raise", "error", "call"),
                                       <<"ColumnOrder">>)
                  /\ UNCHANGED grid
             ELSE IF ~CellInGrid(grid, row_index, get_gridview_column_name(grid, column_index))
             THEN /\ last' = WithCalls(Call(op, args, <<answer>>, "raise", "error", "call"),
                                       <<"ColumnOrder", "SetCurrentCell">>)
                  /\ UNCHANGED grid
             ELSE /\ grid' = [grid EXCEPT
                                 !.CurrentCellRow = row_index,
                                 !.CurrentCellColumn =
                                     get_gridview_column_name(grid, column_index)]
                  /\ last' = WithCalls(Call(op, args, <<answer>>, "None", "", "none"),
                                       <<"ColumnOrder", "SetCurrentCell">>)
          /\ UNCHANGED <<running, connections, application, active_connection,
                         active_session, active_window>>

clear_gridview_selection(answer) ==
    /\ opening = <<>>
    /\ UNCHANGED opening
    /\ /\ IF ~is_object(answer)
          THEN /\ last' = CannotFind("clear_gridview_selection", <<GridId>>, <<answer>>, GridId)
               /\ UNCHANGED grid
          ELSE /\ grid' = [grid EXCEPT !.SelectedRows = <<>>]
               /\ last' = WithCalls(Call("clear_gridview_selection", <<GridId>>, <<answer>>,
                                         "None", "", "none"),
                                    <<"ClearSelection">>)
       /\ UNCHANGED <<running, connections, application, active_connection,
                      active_session, active_window>>

\* SapGui.__get_gridview_cell_address_by_value__: the two loops, from
\* (row_index, column_index) on
RECURSIVE GridScan(_, _, _, _)
GridScan(g, cell_value, row_index, column_index) ==
    IF row_index >= g.RowCount THEN <<>>
    ELSE IF column_index >= ColumnCount(g)
    THEN GridScan(g, cell_value, row_index + 1, 0)
    ELSE (IF cell_value = GetCellValue(g, row_index, Item(g.ColumnOrder, column_index))
          THEN <<[Row_Index |-> row_index, Column_Index |-> column_index]>>
          ELSE <<>>) \o GridScan(g, cell_value, row_index, column_index + 1)

get_gridview_cell_address_by_value(g, cell_value) == GridScan(g, cell_value, 0, 0)

\* the GetCellValue calls of the two loops of
\* __get_gridview_cell_address_by_value__, from (row_index, column_index) on
RECURSIVE GridScanReads(_, _, _)
GridScanReads(g, row_index, column_index) ==
    IF row_index >= g.RowCount THEN <<>>
    ELSE IF column_index >= ColumnCount(g)
    THEN GridScanReads(g, row_index + 1, 0)
    ELSE <<<<row_index, column_index>>>> \o GridScanReads(g, row_index, column_index + 1)

\* the selection, were it the row of the first match alone
selected_rows_first(indexes) == str_of_int(indexes[1].Row_Index)

\* ','.join([str(r) for r, c in indexes])
selected_rows_of(indexes) ==
    join(<<",">>, [i \in DOMAIN indexes |-> str_of_int(indexes[i].Row_Index)])

select_gridview_rows_by_cell_value(cell_value, answer) ==
    /\ opening = <<>>
    /\ UNCHANGED opening
    /\ LET op == "select_gridview_rows_by_cell_value"
           args == <<GridId, cell_value>>
           indexes == get_gridview_cell_address_by_value(grid, cell_value)
           latest == indexes[Len(indexes)]
       IN /\ IF ~is_object(answer)
             THEN last' = CannotFind(op, args, <<answer>>, GridId) /\ UNCHANGED grid
             ELSE IF Len(indexes) = 0
             THEN /\ last' = WithReads(WithCalls(
                         Call(op, args, <<answer>>, "raise",
                              "The GridView row not found for the value: " \o cell_value,
                              "none"),
                         IF GridScanReads(grid, 0, 0) = <<>> THEN <<>>
                         ELSE <<"GetCellValue">>), GridScanReads(grid, 0, 0))
                  /\ UNCHANGED grid
             ELSE /\ grid' = [grid EXCEPT
                                 !.CurrentCellRow = latest.Row_Index,
                                 !.CurrentCellColumn =
                                     get_gridview_column_name(grid, latest.Column_Index),
                                 !.SelectedRows = selected_rows_of(indexes)]
                  /\ last' = WithReads(WithCalls(Call(op, args, <<answer>>, "None", "", "none"),
                                       <<"GetCellValue", "SetCurrentCell", "currentCellRow",
                                         "selectedRows">>), GridScanReads(grid, 0, 0))
          /\ UNCHANGED <<running, connections, application, active_connection,
                         active_session, active_window>>

\* SapGui.set_gridview_current_cell_by_cell_value: SetCurrentCell on every
\* match in the order of the scan, so that the latest match is the current cell
set_gridview_current_cell_by_cell_value(cell_value, answer) ==
    /\ opening = <<>>
    /\ UNCHANGED opening
    /\ LET op == "set_gridview_current_cell_by_cell_value"
           args == <<GridId, cell_value>>
           indexes == get_gridview_cell_address_by_value(grid, cell_value)
           latest == indexes[Len(indexes)]
       IN /\ IF ~is_object(answer)
             THEN last' = CannotFind(op, args, <<answer>>, GridId) /\ UNCHANGED grid
             ELSE IF Len(indexes) = 0
             THEN /\ last' = WithReads(WithCalls(
                         Call(op, args, <<answer>>, "raise",
                              "The GridView row not found for the value: " \o cell_value,
                              "none"),
                         IF GridScanReads(grid, 0, 0) = <<>> THEN <<>>
                         ELSE <<"GetCellValue">>), GridScanReads(grid, 0, 0))
                  /\ UNCHANGED grid
             ELSE /\ grid' = [grid EXCEPT
                                 !.CurrentCellRow = latest.Row_Index,
                                 !.CurrentCellColumn =
                                     get_gridview_column_name(grid, latest.Column_Index)]
                  /\ last' = WithReads(WithCalls(Call(op, args, <<answer>>, "None", "", "none"),
                                       <<"GetCellValue", "SetCurrentCell">>),
                                       GridScanReads(grid, 0, 0))
          /\ UNCHANGED <<running, connections, application, active_connection,
                         active_session, active_window>>

\* the host's answer to a write of CurrentCellRow, CurrentCellColumn or
\* SelectedRows: it takes a row, a column or rows of the grid and refuses any
\* other value, as SetCurrentCell does
RowInGrid(g, row) == row \in 0 .. (g.RowCount - 1)
ColumnInGrid(g, name) == name \in Range(g.ColumnOrder)
\* the highest row a selection names (its items ascend), -1 for the empty one
SelectionTop(text) == IF text = <<>> THEN -1 ELSE int_of_str(<<text[Len(text)]>>)
SelectionInGrid(g, text) == SelectionTop(text) < g.RowCount

\* grid_view.SelectAll(): the selection the host shows for all rows
SelectAll(g) ==
    IF g.RowCount = 0 THEN <<>>
    ELSE IF g.RowCount = 1 THEN str_of_int(0)
    ELSE str_of_int(0) \o <<"-">> \o str_of_int(g.RowCount - 1)

\* SapGui.set_current_gridview_column_name
set_current_gridview_column_name(column_name, answer) ==
    /\ opening = <<>>
    /\ UNCHANGED opening
    /\ LET op == "set_current_gridview_column_name"
           args == <<GridId, column_name>>
       IN /\ IF ~is_object(answer)
             THEN last' = CannotFind(op, args, <<answer>>, GridId) /\ UNCHANGED grid
             ELSE IF ~ColumnInGrid(grid, column_name)
             THEN /\ last' = WithCalls(Call(op, args, <<answer>>, "raise", "error", "call"),
                                       <<"CurrentCellColumn">>)
                  /\ UNCHANGED grid
             ELSE /\ grid' = [grid EXCEPT !.CurrentCellColumn = column_name]
                  /\ last' = WithCalls(Call(op, args, <<answer>>, "None", "", "none"),
                                       <<"CurrentCellColumn">>)
          /\ UNCHANGED <<running, connections, application, active_connection,
                         active_session, active_window>>

\* SapGui.set_current_gridview_column_index: the name of the column at
\* column_index is written to CurrentCellColumn
set_current_gridview_column_index(column_index, answer) ==
    /\ opening = <<>>
    /\ UNCHANGED opening
    /\ LET op == "set_current_gridview_column_index"
           args == <<GridId, column_index>>
       IN /\ IF ~is_object(answer)
             THEN last' = CannotFind(op, args, <<answer>>, GridId) /\ UNCHANGED grid
             ELSE IF ~HasItem(grid.ColumnOrder, column_index)
             THEN /\ last' = WithCalls(Call(op, args, <<answer>>, "raise", "error", "call"),
                                       <<"ColumnOrder">>)
                  /\ UNCHANGED grid
             ELSE /\ grid' = [grid EXCEPT !.CurrentCellColumn =
                                             get_gridview_column_name(grid, column_index)]
                  /\ last' = WithCalls(Call(op, args, <<answer>>, "None", "", "none"),
                                       <<"ColumnOrder", "CurrentCellColumn">>)
          /\ UNCHANGED <<running, connections, application, active_connection,
                         active_session, active_window>>

\* SapGui.set_current_gridview_row_index
set_current_gridview_row_index(row_index, answer) ==
    /\ opening = <<>>
    /\ UNCHANGED opening
    /\ LET op == "set_current_gridview_row_index"
           args == <<GridId, row_index>>
       IN /\ IF ~is_object(answer)
             THEN last' = CannotFind(op, args, <<answer>>, GridId) /\ UNCHANGED grid
             ELSE IF ~RowInGrid(grid, row_index)
             THEN /\ last' = WithCalls(Call(op, args, <<answer>>, "raise", "error", "call"),
                                       <<"CurrentCellRow">>)
                  /\ UNCHANGED grid
             ELSE /\ grid' = [grid EXCEPT !.CurrentCellRow = row_index]
                  /\ last' = WithCalls(Call(op, args, <<answer>>, "None", "", "none"),
                                       <<"CurrentCellRow">>)
          /\ UNCHANGED <<running, connections, application, active_connection,
                         active_session, active_window>>

\* SapGui.click_gridview_cell: without arguments the current cell is clicked;
\* else the row is written to currentCellRow and selectedRows and the cell is
\* clicked, the current column staying as it is.  ColumnOrder[None] raises,
\* and the host refuses None as a row
click_gridview_cell(row_index, column_index, answer) ==
    /\ opening = <<>>
    /\ UNCHANGED opening
    /\ LET op == "click_gridview_cell"
           args == <<GridId, row_index, column_index>>
       IN /\ IF ~is_object(answer)
             THEN last' = CannotFind(op, args, <<answer>>, GridId) /\ UNCHANGED grid
             ELSE IF IsNone(row_index) /\ IsNone(column_index)
             THEN /\ last' = WithCalls(Call(op, args, <<answer>>, "None", "", "none"),
                                       <<"ClickCurrentCell">>)
                  /\ UNCHANGED grid
             ELSE IF IsNone(column_index) \/ ~HasItem(grid.ColumnOrder, Val(column_index))
             THEN /\ last' = WithCalls(Call(op, args, <<answer>>, "raise", "error", "call"),
                                       <<"ColumnOrder">>)
                  /\ UNCHANGED grid
             ELSE IF IsNone(row_index) \/ ~RowInGrid(grid, Val(row_index))
             THEN /\ last' = WithCalls(Call(op, args, <<answer>>, "raise", "error", "call"),
                                       <<"ColumnOrder", "currentCellRow">>)
                  /\ UNCHANGED grid
             ELSE /\ grid' = [grid EXCEPT
                                 !.CurrentCellRow = Val(row_index),
                                 !.SelectedRows = str_of_int(Val(row_index))]
                  /\ last' = WithCalls(Call(op, args, <<answer>>, "None", "", "none"),
                                       <<"ColumnOrder", "currentCellRow", "selectedRows",
                                         "Click">>)
          /\ UNCHANGED <<running, connections, application, active_connection,
                         active_session, active_window>>

\* SapGui.select_gridview_all_cells
select_gridview_all_cells(answer) ==
    /\ opening = <<>>
    /\ UNCHANGED opening
    /\ /\ IF ~is_object(answer)
          THEN /\ last' = CannotFind("select_gridview_all_cells", <<GridId>>, <<answer>>,
                                     GridId)
               /\ UNCHANGED grid
          ELSE /\ grid' = [grid EXCEPT !.SelectedRows = SelectAll(grid)]
               /\ last' = WithCalls(Call("select_gridview_all_cells", <<GridId>>, <<answer>>,
                                         "None", "", "none"),
                                    <<"SelectAll">>)
       /\ UNCHANGED <<running, connections, application, active_connection,
                      active_session, active_window>>

\* the members of the grid a caller may write with set_property, each with
\* the values written, and the methods of the grid called with invoke_method
PropertyNames == {"SelectedRows", "CurrentCellRow", "CurrentCellColumn"}
PropertyValues(property_name) ==
    IF property_name = "SelectedRows" THEN {<<>>, <<"1">>, <<"0", "-", "1">>}
    ELSE IF property_name = "CurrentCellRow" THEN {1}
    ELSE {ColNamePool[MaxCols]}
MethodNames == {"SelectAll", "ClearSelection"}

\* SapGui.set_property on the grid: setattr of the member
set_property(property_name, property_value, answer) ==
    /\ opening = <<>>
    /\ UNCHANGED opening
    /\ LET op == "set_property"
           args == <<GridId, property_name, property_value>>
           taken == IF property_name = "SelectedRows"
                    THEN SelectionInGrid(grid, property_value)
                    ELSE IF property_name = "CurrentCellRow"
                    THEN RowInGrid(grid, property_value)
                    ELSE ColumnInGrid(grid, property_value)
       IN /\ IF ~is_object(answer)
             THEN last' = CannotFind(op, args, <<answer>>, GridId) /\ UNCHANGED grid
             ELSE IF ~taken
             THEN /\ last' = WithCalls(Call(op, args, <<answer>>, "raise", "error", "call"),
                                       <<property_name>>)
                  /\ UNCHANGED grid
             ELSE /\ grid' = IF property_name = "SelectedRows"
                             THEN [grid EXCEPT !.SelectedRows = property_value]
                             ELSE IF property_name = "CurrentCellRow"
                             THEN [grid EXCEPT !.CurrentCellRow = property_value]
                             ELSE [grid EXCEPT !.CurrentCellColumn = property_value]
                  /\ last' = WithCalls(Call(op, args, <<answer>>, "None", "", "none"),
                                       <<property_name>>)
          /\ UNCHANGED <<running, connections, application, active_connection,
                         active_session, active_window>>

\* SapGui.invoke_method on the grid, without arguments: the method is called
\* and what it returns, None, is returned
invoke_method(method_name, answer) ==
    /\ opening = <<>>
    /\ UNCHANGED opening
    /\ LET op == "invoke_method"
           args == <<GridId, method_name>>
       IN /\ IF ~is_object(answer)
             THEN last' = CannotFind(op, args, <<answer>>, GridId) /\ UNCHANGED grid
             ELSE /\ grid' = [grid EXCEPT !.SelectedRows =
                                 IF method_name = "SelectAll" THEN SelectAll(grid)
                                 ELSE <<>>]
                  /\ last' = WithCalls(Call(op, args, <<answer>>, "None", "", "none"),
                                       <<method_name>>)
          /\ UNCHANGED <<running, connections, application, active_connection,
                         active_session, active_window>>

\* the outcomes of lines 75 to 99 as (popup, type, fault, sbar): a call that
\* raises ends open_new_session, so what the later calls would have met is
\* fixed to one value
BindInputs ==
    LET Reads == Popups \ PopupRaises
    IN {<<"none", "S", fault, "found">> : fault \in Faults \ {"none"}}
       \cup {<<popup, "S", "none", "found">> : popup \in PopupRaises}
       \cup {<<popup, "S", "none", sbar>> :
                popup \in Reads, sbar \in LookupAnswers \ {"found"}}
       \cup {<<popup, type, "none", "found">> : popup \in Reads, type \in StatusTypes}

----------------------------------------------------------------------------
(* The specifications *)

Next ==
    \/ \E launch \in Launches : open_new_session_launch(InfoPrt, launch)
    \/ \E i \in BindInputs : open_new_session_bind(i[1], i[2], i[3], i[4])
    \/ \E i \in 1 .. MaxSessions : HostCreateSession(i)
    \/ HostOpenConnection(InfoDev)
    \/ \E i \in 1 .. MaxSessions, j \in 1 .. MaxSessions : HostCloseSession(i, j)
    \/ HostExit
    \/ \E c \in IdxArgs, s \in IdxArgs, d \in DetailArgs, w \in WindowIndexes :
          activate_session(c, s, d, w)
    \/ \E c \in IdxArgs, s \in IdxArgs : check_if_session_exists(c, s)
    \/ \E c \in IdxArgs, s \in IdxArgs, answer \in {"ok", "fail"} :
          close_session(c, s, answer)
    \/ \E c \in IdxArgs, s \in IdxArgs : get_session_info(c, s)
    \/ \E mode \in {"snapshot", "live"}, failAt \in 0 .. MaxSessions :
          close_all_sessions(mode, failAt)
    \/ \E index \in WindowIndexes, answer \in Answers(active_session) :
          set_active_window(index, answer)
    \/ \E outcome \in {"killed", "fail"} : close_sap_logon(outcome)
    \/ \E f \in FieldIds, answer \in Answers(active_session) :
          check_if_object_exists(f, answer)
    \/ \E f \in FieldIds, answer \in Answers(active_session), read \in {"ok", "fail"} :
          get_text(f, answer, read)
    \/ \E start \in {"ok", "fail"}, answer \in Answers(active_session),
          type \in StatusTypes :
          run_transaction("sq01", start, answer, type)
    \/ \E answer \in Answers(active_session) : gridview_to_array(answer)
    \/ \E answer \in Answers(active_session) :
          double_click_gridview_cell(<<>>, <<>>, answer)
    \/ \E answer \in Answers(active_session) : set_current_gridview_cell(0, 0, answer)
    \/ \E answer \in Answers(active_session) : clear_gridview_selection(answer)

Spec == Init /\ [][Next]_vars

\* the wrapper used to open, activate and close sessions only
NextSessions ==
    \/ \E launch \in Launches : open_new_session_launch(InfoPrt, launch)
    \/ \E i \in BindInputs : open_new_session_bind(i[1], i[2], i[3], i[4])
    \/ \E c \in IdxArgs, s \in IdxArgs, d \in DetailArgs, w \in WindowIndexes :
          activate_session(c, s, d, w)
    \/ \E c \in IdxArgs, s \in IdxArgs, answer \in {"ok", "fail"} :
          close_session(c, s, answer)
    \/ \E mode \in {"snapshot", "live"}, failAt \in 0 .. MaxSessions :
          close_all_sessions(mode, failAt)

SpecSessions == Init /\ [][NextSessions]_vars

\* a host that already runs WideConn connections of one session each when the
\* wrapper is constructed; sessions are activated by index
WideHost ==
    [i \in 1 .. WideConn |->
        [no |-> i - 1, info |-> InfoPrt, sessions |-> <<[no |-> 0]>>]]

InitWide ==
    /\ running = TRUE
    /\ connections = WideHost
    /\ application = "None"
    /\ active_connection = NoConn
    /\ active_session = NoSess
    /\ active_window = NoWnd
    /\ last = NoCall
    /\ grid = EmptyGrid
    /\ opening = <<>>

NextWide ==
    \E c \in Opt(0 .. WideConn), s \in IdxArgs, w \in WindowIndexes :
        activate_session(c, s, <<>>, w)

SpecWide == InitWide /\ [][NextWide]_vars

\* a grid on the screen of a session; its cells are searched
InitGrid ==
    /\ running = TRUE
    /\ connections = <<[no |-> 0, info |-> InfoPrt, sessions |-> <<[no |-> 0]>>]>>
    /\ application = "live"
    /\ active_connection = [st |-> "live", no |-> 0]
    /\ active_session = [st |-> "live", con |-> 0, no |-> 0]
    /\ active_window = [st |-> "live", con |-> 0, ses |-> 0, wnd |-> 0]
    /\ last = NoCall
    /\ grid \in Grids
    /\ opening = <<>>

NextGrid ==
    \/ \E v \in SearchValues, answer \in {"found", "notfound"} :
          get_cell_address_by_cell_value(v, answer)
    \/ \E answer \in {"found", "notfound"} : get_selected_gridview_rows(answer)
    \/ \E rows \in RowIndexArgs, answer \in {"found", "notfound"} :
          set_selected_gridview_rows(rows, answer)
    \/ \E answer \in {"found", "notfound"} : get_current_gridview_cell(answer)
    \/ \E answer \in {"found", "notfound"} : gridview_to_array(answer)
    \/ \E answer \in {"found", "notfound"} : gridview_to_dict(answer)
    \/ \E r \in IdxArgs, c \in IdxArgs, answer \in {"found", "notfound"} :
          double_click_gridview_cell(r, c, answer)
    \/ \E v \in SearchValues, answer \in {"found", "notfound"} :
          select_gridview_rows_by_cell_value(v, answer)
    \/ \E r \in 0 .. MaxRows, c \in 0 .. MaxCols, answer \in {"found", "notfound"} :
          set_current_gridview_cell(r, c, answer)
    \/ \E answer \in {"found", "notfound"} : clear_gridview_selection(answer)
    \/ \E v \in SearchValues, answer \in {"found", "notfound"} :
          set_gridview_current_cell_by_cell_value(v, answer)
    \/ \E name \in ColNames, answer \in {"found", "notfound"} :
          set_current_gridview_column_name(name, answer)
    \/ \E c \in 0 .. MaxCols, answer \in {"found", "notfound"} :
          set_current_gridview_column_index(c, answer)
    \/ \E r \in 0 .. MaxRows, answer \in {"found", "notfound"} :
          set_current_gridview_row_index(r, answer)
    \/ \E r \in IdxArgs, c \in IdxArgs, answer \in {"found", "notfound"} :
          click_gridview_cell(r, c, answer)
    \/ \E answer \in {"found", "notfound"} : select_gridview_all_cells(answer)
    \/ \E name \in PropertyNames, answer \in {"found", "notfound"} :
          \E value \in PropertyValues(name) : set_property(name, value, answer)
    \/ \E name \in MethodNames, answer \in {"found", "notfound"} :
          invoke_method(name, answer)

SpecGrid == InitGrid /\ [][NextGrid]_vars

----------------------------------------------------------------------------
(* The claims *)

ArgC == last.args[1]
ArgS == last.args[2]

\* C1: for every connection index c and session index s that exist, after
\* activate_session(c, s) succeeds get_connection_index() returns c and
\* get_session_index() returns s.
C1_ActivateByIndexReportsIndexes ==
    (/\ last.op = "activate_session"
     /\ last.result = "None"
     /\ ~IsNone(ArgC)
     /\ ~IsNone(ArgS))
    => /\ get_connection_index = Returned(Val(ArgC))
       /\ get_session_index = Returned(Val(ArgS))

\* C2: activate_session() without arguments, when it succeeds, makes the last
\* connection the active connection and that connection's last session the
\* active session, whatever was active before.
C2_ActivateDefaultsToLatest ==
    (/\ last.op = "activate_session"
     /\ last.args = <<<<>>, <<>>, <<>>>>
     /\ last.result = "None")
    => /\ connections # <<>>
       /\ LET conn == connections[Len(connections)]
          IN /\ active_connection = [st |-> "live", no |-> conn.no]
             /\ active_session =
                    [st |-> "live", con |-> conn.no,
                     no |-> conn.sessions[Len(conn.sessions)].no]

C2_Witness ==
    /\ last.op = "activate_session"
    /\ last.args = <<<<>>, <<>>, <<>>>>
    /\ last.result = "None"
    /\ Len(connections) = 2

\* a session exists at position s (None: the last) of the connection at
\* position c (None: the last)
SessionExistsAt(c, s) ==
    LET ci == IF c = <<>> THEN Len(connections) ELSE c[1] + 1
    IN /\ ci \in DOMAIN connections
       /\ LET si == IF s = <<>> THEN Len(connections[ci].sessions) ELSE s[1] + 1
          IN si \in DOMAIN connections[ci].sessions

\* C3: check_if_session_exists returns True exactly when a session exists at
\* that index of that connection, and False otherwise; it never raises, also
\* for an index out of range, with every session closed, or without the host.
C3_SessionExistsExactly ==
    last.op = "check_if_session_exists"
    => last.result = IF running /\ SessionExistsAt(ArgC, ArgS) THEN "True" ELSE "False"

C3_Witness ==
    /\ last.op = "check_if_session_exists"
    /\ last.result = "False"
    /\ ArgC = <<1>>
    /\ Len(connections) = 1

\* C4: open_new_session returns True when the login ends with a status-bar
\* message type other than 'E', and raises when the type is 'E'.  A message
\* type is read when SAPgui.exe started, no call of lines 75 to 94 raised and
\* the status bar 'wnd[0]/sbar' was found; every other end of the call raises
\* before a type is read.
C4_OpenReturnsTrueUnlessError ==
    (/\ last.op = "open_new_session"
     /\ last.env[1] = "ok"
     /\ last.env[4] = "none"
     /\ last.env[2] \notin PopupRaises
     /\ last.env[5] = "found")
    => IF last.env[3] = "E" THEN last.result = "raise" ELSE last.result = "True"

C4_Witness ==
    /\ last.op = "open_new_session"
    /\ last.env = <<"ok", "multi", "E", "none", "found">>
    /\ last.result = "raise"

\* C5: count_connections() returns the number of connections open in the
\* host, and every successful open_new_session raises it by one, so that after
\* k successful calls from no connection it is k.
C5_CountFollowsOpens ==
    [][/\ application' = "live" => count_connections' = Returned(Len(connections'))
       /\ (opening = <<>> /\ opening' # <<>>)
          => Len(connections') = Len(connections) + 1
       /\ (opening # <<>> /\ last'.op = "open_new_session")
          => connections' = connections]_vars

C5_Witness ==
    /\ last.op = "open_new_session"
    /\ last.result = "True"
    /\ \A i \in DOMAIN connections : connections[i].info = InfoPrt
    /\ count_connections = Returned(2)

\* C6: after close_all_sessions() returns, no session remains open on any
\* connection.
C6_CloseAllLeavesNone ==
    last.op = "close_all_sessions" => connections = <<>>

\* the session close_session(c, s) is to close, in the state before the call
CloseTarget(c, s) ==
    IF c = <<>>
    THEN <<active_session.con, active_session.no>>
    ELSE <<connections[c[1] + 1].no, connections[c[1] + 1].sessions[s[1] + 1].no>>

\* C7: a close_session() that returns closes the active session, and a
\* close_session(c, s) that returns closes session s of connection c; exactly
\* that session is closed and every other session stays open.
C7_CloseSessionClosesOne ==
    [][(/\ last'.op = "close_session"
        /\ last'.result = "None"
        /\ (last'.args[1] = <<>>) = (last'.args[2] = <<>>))
       => LET target == CloseTarget(last'.args[1], last'.args[2])
          IN /\ target \in OpenSessions(connections)
             /\ OpenSessions(connections') = OpenSessions(connections) \ {target}]_vars

C7_Witness ==
    /\ last.op = "close_session"
    /\ last.result = "None"
    /\ last.args = <<<<0>>, <<0>>>>
    /\ connections # <<>>

\* the (row, column index) pairs of the cells of g that hold v
MatchingCells(g, v) ==
    {p \in (0 .. g.RowCount - 1) \X (0 .. Len(g.ColumnOrder) - 1) :
        g.cells[<<p[1], g.ColumnOrder[p[2] + 1]>>] = v}

\* C8: get_cell_address_by_cell_value returns exactly the addresses of the
\* cells that hold the value, in row-major order, each with row and column,
\* and raises when no cell holds it.
C8_AddressesOfMatchingCells ==
    (last.op = "get_cell_address_by_cell_value" /\ last.env = <<"found">>)
    => LET m == MatchingCells(grid, last.args[1])
           res == last.val
       IN IF m = {}
          THEN last.result = "raise"
          ELSE /\ last.result = "value"
               /\ {<<res[i].row, res[i].column>> : i \in DOMAIN res} = m
               /\ \A i \in DOMAIN res, j \in DOMAIN res :
                      i < j => \/ res[i].row < res[j].row
                               \/ /\ res[i].row = res[j].row
                                  /\ res[i].column < res[j].column

C8_Witness ==
    /\ last.op = "get_cell_address_by_cell_value"
    /\ last.result = "value"
    /\ Len(last.val) = 3
    /\ grid.ColumnOrder = <<"BNAME", "MANDT">>

\* C9: check_if_object_exists returns True when the control is found, False
\* when the lookup fails with 'The control could not be found by id', and
\* raises for any other failure of the lookup.
C9_ObjectExistsByLookup ==
    last.op = "check_if_object_exists"
    => last.result = CASE last.env = <<"found">> -> "True"
                       [] last.env = <<"notfound">> -> "False"
                       [] OTHER -> "raise"

C9_Witness ==
    /\ last.op = "check_if_object_exists"
    /\ last.env = <<"notfound">>
    /\ last.result = "False"

\* C10, as stated: every failure of an underlying call reaches the caller as
\* an exception; no operation swallows it.
C10_EveryFailureRaises ==
    last.failed # "none" => last.result = "raise"

\* C10, amended: a failed call is raised to the caller, except that
\* check_if_session_exists answers False, close_all_sessions and
\* close_sap_logon return normally, and a lookup that fails with 'could not be
\* found' is the answer False of check_if_object_exists, also where
\* open_new_session probes for the logon popup.
C10_FailuresRaiseButForTheSwallowers ==
    /\ last.failed = "call"
       => \/ last.result = "raise"
          \/ last.op = "check_if_session_exists" /\ last.result = "False"
          \/ last.op \in {"close_all_sessions", "close_sap_logon"} /\ last.result = "None"
    /\ last.failed = "probe"
       => \/ last.op = "check_if_object_exists" /\ last.result = "False"
          \/ last.op = "open_new_session"

C10_Witness ==
    /\ last.op = "activate_session"
    /\ last.failed = "call"
    /\ last.result = "raise"
    /\ running

\* the operations that set the handles
HandleOps == {"open_new_session", "activate_session", "set_active_window"}

\* C11: active_connection, active_session and active_window are changed only
\* by open_new_session, activate_session and set_active_window; every other
\* operation leaves each of them referring to the object it referred to, which
\* the host may meanwhile have closed.
C11_OnlyHandleOpsSetHandles ==
    [][last'.op \notin HandleOps
       => /\ \/ active_connection' = active_connection
             \/ /\ active_connection.st = "live"
                /\ active_connection'.st = "stale"
                /\ active_connection.no \notin ConnNos(connections')
          /\ \/ active_session' = active_session
             \/ /\ active_session.st = "live"
                /\ active_session'.st = "stale"
                /\ ~SessionOpen(connections', active_session.con, active_session.no)
          /\ \/ active_window' = active_window
             \/ /\ active_window.st = "live"
                /\ active_window'.st = "stale"
                /\ ~SessionOpen(connections', active_window.con, active_window.ses)]_vars

C11_Witness ==
    /\ last.op = "close_session"
    /\ last.result = "None"
    /\ active_session.st = "live"
    /\ active_window.st = "live"
    /\ active_window.wnd = 1

\* the indexes from a to b
Interval(a, b) == [i \in 1 .. (b - a + 1) |-> a + i - 1]

\* the row indexes that the items of a SelectedRows string select
RECURSIVE Expanded(_)
Expanded(items) ==
    IF items = <<>> THEN <<>>
    ELSE (IF "-" \in Range(Head(items))
          THEN Interval(int_of_str(split(Head(items), "-")[1]),
                        int_of_str(split(Head(items), "-")[2]))
          ELSE <<int_of_str(Head(items))>>) \o Expanded(Tail(items))

\* C12: get_selected_gridview_rows returns None when SelectedRows is empty, and
\* otherwise the list of every selected row index, a range 'a-b' giving every
\* index from a to b.
C12_SelectedRowsExpanded ==
    (last.op = "get_selected_gridview_rows" /\ last.env = <<"found">>)
    => IF grid.SelectedRows = <<>>
       THEN last.result = "None"
       ELSE /\ last.result = "value"
            /\ last.val = Expanded(split(grid.SelectedRows, ","))

\* C13: set_selected_gridview_rows takes a string, passed through unchanged, or
\* a list of integers, turned into the comma-joined string of its items, and
\* sets the grid's selected rows to that string without raising.
C13_SetSelectedRowsAcceptsBothForms ==
    (last.op = "set_selected_gridview_rows" /\ last.env = <<"found">>)
    => /\ last.result = "None"
       /\ grid.SelectedRows =
              IF last.args[2].kind = "str" THEN last.args[2].text
              ELSE join(<<",">>, [i \in DOMAIN last.args[2].items |->
                                    Digits(last.args[2].items[i])])

\* C14: get_current_gridview_cell returns (row, column), row the grid's current
\* row and column the index i with ColumnOrder[i] the grid's current column,
\* wherever the current column is in the column order.
C14_CurrentCellIsRowAndColumnIndex ==
    (/\ last.op = "get_current_gridview_cell"
     /\ last.env = <<"found">>
     /\ grid.CurrentCellColumn \in Range(grid.ColumnOrder))
    => /\ last.result = "value"
       /\ last.val.row = grid.CurrentCellRow
       /\ last.val.column # <<>>
       /\ grid.ColumnOrder[last.val.column[1] + 1] = grid.CurrentCellColumn

\* the first title of the c-th column (from 1) of the grid
FirstTitle(g, c) ==
    CASE g.ColumnOrder[c] = "MANDT" -> "Client"
      [] g.ColumnOrder[c] = "BNAME" -> "User Name"
      [] g.ColumnOrder[c] = "QNUM" -> "Query"
      [] OTHER -> "Description"

\* header and body are the table of the grid
IsTableOf(g, header, body) ==
    /\ Len(header) = Len(g.ColumnOrder)
    /\ \A c \in DOMAIN header : header[c] = FirstTitle(g, c)
    /\ Len(body) = g.RowCount
    /\ \A r \in DOMAIN body :
          /\ Len(body[r]) = Len(g.ColumnOrder)
          /\ \A c \in DOMAIN body[r] : body[r][c] = g.cells[<<r - 1, g.ColumnOrder[c]>>]

\* C15: gridview_to_array returns RowCount + 1 rows, the first the header row of
\* the first title of each column in ColumnOrder order, and row r + 1 the
\* values GetCellValue(r, ColumnOrder[c]) for each column index c;
\* gridview_to_dict returns the same header as 'columns' and the same body as
\* 'data'.
C15_GridAsTable ==
    /\ (last.op = "gridview_to_array" /\ last.env = <<"found">>)
       => /\ last.result = "value"
          /\ Len(last.val) = grid.RowCount + 1
          /\ IsTableOf(grid, Head(last.val), Tail(last.val))
    /\ (last.op = "gridview_to_dict" /\ last.env = <<"found">>)
       => /\ last.result = "value"
          /\ IsTableOf(grid, last.val.columns, last.val.data)

C15_Witness ==
    /\ last.op = "gridview_to_array"
    /\ last.result = "value"
    /\ Len(last.val) = 3
    /\ grid.ColumnOrder = <<"BNAME", "MANDT">>
    /\ last.val[2] # last.val[3]

\* the positions of the connections whose sessions match the details d,
\* whatever the case of the letters
MatchingConnections(d) ==
    {i \in DOMAIN connections :
        /\ Upper(connections[i].info.sid) = Upper(d.sid)
        /\ connections[i].info.client = d.client
        /\ Upper(connections[i].info.user) = Upper(d.user)
        /\ Upper(connections[i].info.server) = Upper(d.server)}

\* C16: an activate_session by connection details that returns leaves active a
\* session that matches the details, on the connection that owns it; when no
\* open session matches, the call raises.
C16_ActivateByDetailsMatchesOrRaises ==
    (/\ last.op = "activate_session"
     /\ last.args[1] = <<>>
     /\ last.args[2] = <<>>
     /\ last.args[3] # <<>>)
    => /\ last.result = "None"
          => /\ active_session.st = "live"
             /\ active_connection = [st |-> "live", no |-> active_session.con]
             /\ \E i \in MatchingConnections(last.args[3][1]) :
                    connections[i].no = active_session.con
       /\ (~running \/ MatchingConnections(last.args[3][1]) = {})
          => last.result = "raise"

\* C19: double_click_gridview_cell without row_index and column_index
\* double-clicks the current cell and changes neither the current cell nor the
\* selection; with at least one of them it first sets the current cell to
\* (row_index or the current row, the column at column_index or the current
\* column) and the selected rows to that row, and only then double-clicks.
C19_DoubleClickSetsCellFirst ==
    [][(last'.op = "double_click_gridview_cell" /\ last'.result = "None")
       => LET r == last'.args[2]
              c == last'.args[3]
              calls == last'.calls
          IN /\ calls # <<>>
             /\ \A i \in DOMAIN calls :
                    calls[i] = "DoubleClickCurrentCell" <=> i = Len(calls)
             /\ IF r = <<>> /\ c = <<>>
                THEN grid' = grid /\ Len(calls) = 1
                ELSE /\ grid'.CurrentCellRow = (IF r = <<>> THEN grid.CurrentCellRow ELSE r[1])
                     /\ grid'.CurrentCellColumn =
                            (IF c = <<>> THEN grid.CurrentCellColumn
                             ELSE grid.ColumnOrder[c[1] + 1])
                     /\ grid'.SelectedRows = Digits(grid'.CurrentCellRow)
                     /\ {"SetCurrentCell", "selectedRows"} \subseteq
                            {calls[i] : i \in 1 .. (Len(calls) - 1)}]_vars

C19_Witness ==
    /\ last.op = "double_click_gridview_cell"
    /\ last.result = "None"
    /\ last.args[2] = <<0>>
    /\ last.args[3] = <<>>
    /\ grid.RowCount = 2
    /\ grid.ColumnOrder = <<"MANDT", "BNAME">>
    /\ grid.CurrentCellColumn = "BNAME"
    /\ grid.SelectedRows = <<"0">>

\* the row index of every cell of g that holds v, a row once for each of its
\* cells, from row r on
RECURSIVE RowsOfMatches(_, _, _)
RowsOfMatches(g, v, r) ==
    IF r >= g.RowCount THEN <<>>
    ELSE [k \in 1 .. Cardinality({p \in MatchingCells(g, v) : p[1] = r}) |-> Digits(r)]
         \o RowsOfMatches(g, v, r + 1)

\* C20: select_gridview_rows_by_cell_value sets the selected rows to the
\* comma-joined row indexes of all the cells that hold the value; when no cell
\* holds it, it raises and leaves the current cell and the selection as they
\* were.
C20_SelectRowsOfMatchingCells ==
    [][(last'.op = "select_gridview_rows_by_cell_value" /\ last'.env = <<"found">>)
       => IF MatchingCells(grid, last'.args[2]) = {}
          THEN last'.result = "raise" /\ grid' = grid
          ELSE /\ last'.result = "None"
               /\ grid'.SelectedRows = join(<<",">>, RowsOfMatches(grid, last'.args[2], 0))]_vars

C20_Witness ==
    /\ last.op = "select_gridview_rows_by_cell_value"
    /\ last.result = "None"
    /\ grid.SelectedRows = <<"0", ",", "1", ",", "1">>

\* the control accessors of the model that take a field id
FieldAccessors ==
    {"get_text", "get_selected_gridview_rows", "set_selected_gridview_rows",
     "get_current_gridview_cell", "gridview_to_array", "gridview_to_dict",
     "double_click_gridview_cell", "select_gridview_rows_by_cell_value",
     "set_current_gridview_cell", "clear_gridview_selection",
     "set_gridview_current_cell_by_cell_value", "set_current_gridview_column_name",
     "set_current_gridview_column_index", "set_current_gridview_row_index",
     "click_gridview_cell", "select_gridview_all_cells", "set_property",
     "invoke_method"}

\* C17: every control accessor that takes a field id raises 'Cannot find the
\* field: <id>.' when the active session cannot find the control, and then
\* reads, writes or invokes nothing on any control.
C17_AccessorsRaiseCannotFind ==
    (last.op \in FieldAccessors /\ last.env[1] # "found")
    => /\ last.result = "raise"
       /\ last.exc = "Cannot find the field: " \o last.args[1] \o "."
       /\ last.calls = <<>>

\* C18: run_transaction starts the transaction on the active session and then
\* reads the status bar of window 0; it raises when the message type is 'E'
\* and returns normally for every other type, and the start of the
\* transaction always comes before the read of the status bar.
C18_RunTransactionChecksStatus ==
    last.op = "run_transaction"
    => /\ \A i \in DOMAIN last.calls :
              last.calls[i] \in {"Text", "MessageType"}
              => \E j \in 1 .. (i - 1) : last.calls[j] = "StartTransaction"
       /\ (last.env[1] = "ok" /\ last.env[2] = "found")
          => /\ last.calls = <<"StartTransaction", "Text", "MessageType">>
             /\ last.result = IF last.env[3] = "E" THEN "raise" ELSE "None"

C18_Witness ==
    /\ last.op = "run_transaction"
    /\ last.env = <<"ok", "found", "A">>
    /\ last.result = "None"

\* C21: the scans of the grid end for every finite grid and read each cell
\* exactly once: the search for a value and the extraction of the body each
\* make RowCount x ColumnCount GetCellValue calls, one for each (row, column)
\* pair.
C21_ScansReadEachCellOnce ==
    (/\ last.op \in {"select_gridview_rows_by_cell_value",
                     "set_gridview_current_cell_by_cell_value", "gridview_to_array",
                     "gridview_to_dict"}
     /\ last.env = <<"found">>)
    => /\ Len(last.reads) = grid.RowCount * Len(grid.ColumnOrder)
       /\ \A p \in (0 .. grid.RowCount - 1) \X (0 .. Len(grid.ColumnOrder) - 1) :
              Cardinality({i \in DOMAIN last.reads : last.reads[i] = p}) = 1

C21_Witness ==
    /\ last.op = "gridview_to_dict"
    /\ last.result = "value"
    /\ Len(last.reads) = 4

\* the session with the Id ses is a session of the connection with the Id con
SessionOfConnection(ses, con) ==
    /\ Len(ses) > Len(con)
    /\ SubSeq(ses, 1, Len(con)) = con
    /\ ses[Len(con) + 1] = "/"

\* C22: in close_session and get_session_info the connection and the session
\* resolved from the indexes belong together: the session closed or described
\* is a session of the connection on which CloseSession is called or whose Id
\* is reported, also when only connection_index is given.
C22_ConnectionAndSessionBelongTogether ==
    /\ (last.op = "close_session" /\ last.calls # <<>>)
       => SessionOfConnection(last.calls[1].id, last.calls[1].on)
    /\ (last.op = "get_session_info" /\ last.result = "value")
       => SessionOfConnection(last.val.session_index, last.val.connection_index)

\* C23: in every state reached by open_new_session, activate_session,
\* close_session and close_all_sessions, active_session is unset or refers to
\* a session that is still open in the host.
C23_ActiveSessionIsOpen ==
    \/ active_session.st = "None"
    \/ /\ active_session.st = "live"
       /\ SessionOpen(connections, active_session.con, active_session.no)

====
